---- MODULE Spec2Model ----
(***************************************************************************)
(* A model of the brainfudge interpreter: the lexer (Token, JumpTable) and *)
(* the runtime (State and its eight instruction handlers).                 *)
(*                                                                         *)
(* Positions are 0-based as in the source: the token at position p of a    *)
(* token sequence ts is ts[p + 1], the cell at memory pointer m is         *)
(* memory[m + 1].  An Option is a sequence: <<>> is None, <<x>> is Some(x).*)
(***************************************************************************)
EXTENDS Integers, Sequences, FiniteSets, TLC

(***************************************************************************)
(* Bounds of the model.                                                    *)
(***************************************************************************)
\* longest token sequence handed to the interpreter
MaxLen == 4
\* longest token sequence a foreign jump table is built from
MaxForeignLen == 2
\* longest tape the model lets PointerIncrement grow
MaxTape == 3
\* longest source text, comments included, handed to the tokenizer alone
MaxSourceLen == 3

(***************************************************************************)
(* lexer.rs                                                                *)
(***************************************************************************)
Token ==
    {"Increment", "Decrement", "PointerIncrement", "PointerDecrement",
     "LoopStart", "LoopEnd", "Input", "Output"}

\* Token::parse: Some(token) for the eight instruction characters, None for
\* every other character
Token_parse_swapped(character) ==
    CASE character = "+" -> <<"Increment">>
      [] character = "-" -> <<"Decrement">>
      [] character = ">" -> <<"PointerDecrement">>
      [] character = "<" -> <<"PointerIncrement">>
      [] character = "[" -> <<"LoopStart">>
      [] character = "]" -> <<"LoopEnd">>
      [] character = "," -> <<"Input">>
      [] character = "." -> <<"Output">>
      [] OTHER -> <<>>
Token_parse(character) ==
    CASE character = "+" -> <<"Increment">>
      [] character = "-" -> <<"Decrement">>
      [] character = ">" -> <<"PointerIncrement">>
      [] character = "<" -> <<"PointerDecrement">>
      [] character = "[" -> <<"LoopStart">>
      [] character = "]" -> <<"LoopEnd">>
      [] character = "," -> <<"Input">>
      [] character = "." -> <<"Output">>
      [] OTHER -> <<>>

\* main.rs tokenize: map Token::parse over the characters, keep the Some
\* values, unwrap them
tokenize(source) ==
    LET parsed == [i \in 1..Len(source) |-> Token_parse(source[i])]
        kept == SelectSeq(parsed, LAMBDA x : x # <<>>)
    IN  [i \in 1..Len(kept) |-> kept[i][1]]

\* the token at a 0-based position of a token sequence
TokenAt(ts, position) == ts[position + 1]

\* HashMap::insert: the key is added or its value overwritten
HashMapInsert(jumps, key, value) ==
    [k \in (DOMAIN jumps) \cup {key} |-> IF k = key THEN value ELSE jumps[k]]

\* the Err(NoMatchingLoopEnd(position)) return of JumpTable::from
NoMatchingLoopEnd(position) ==
    [kind |-> "NoMatchingLoopEnd", arg |-> position, jumps |-> <<>>]

\* the Err(TooManyLoopStarts(count)) return of JumpTable::from
TooManyLoopStarts(count) ==
    [kind |-> "TooManyLoopStarts", arg |-> count, jumps |-> <<>>]

\* the Ok(Self { jumps }) return of JumpTable::from
OkTable(jumps) == [kind |-> "Ok", arg |-> 0, jumps |-> jumps]

\* Token::LoopStart arm of the scan: push the position
PushLoopStart(stack, position) == Append(stack, position)

\* start_loop_stack.pop(): the most recently pushed pending start
PopFirst(stack) == stack[1]
PopValue(stack) == stack[Len(stack)]

\* the stack that pop() leaves behind
PopRest(stack) == SubSeq(stack, 1, Len(stack) - 1)

\* Token::LoopEnd arm, stack not empty: both directions are recorded
InsertPairOneWay(jumps, start, position) == HashMapInsert(jumps, start, position)
InsertPairSelf(jumps, start, position) ==
    HashMapInsert(HashMapInsert(jumps, start, position), position, position)
InsertPair(jumps, start, position) ==
    HashMapInsert(HashMapInsert(jumps, start, position), position, start)

\* the match after the scan: Ok iff no start is pending
FinishAlwaysOk(jumps, stack) == OkTable(jumps)
FinishScan(jumps, stack) ==
    IF Len(stack) = 0 THEN OkTable(jumps) ELSE TooManyLoopStarts(Len(stack))

\* the for loop of JumpTable::from, from `position` on
RECURSIVE ScanTokens(_, _, _, _)
ScanTokens(ts, position, jumps, stack) ==
    IF position >= Len(ts)
    THEN FinishScan(jumps, stack)
    ELSE CASE TokenAt(ts, position) = "LoopStart" ->
                ScanTokens(ts, position + 1, jumps, PushLoopStart(stack, position))
           [] TokenAt(ts, position) = "LoopEnd" ->
                IF Len(stack) = 0
                THEN NoMatchingLoopEnd(position)
                ELSE ScanTokens(ts, position + 1,
                                InsertPair(jumps, PopValue(stack), position),
                                PopRest(stack))
           [] OTHER -> ScanTokens(ts, position + 1, jumps, stack)

\* JumpTable::from
JumpTable_from(ts) == ScanTokens(ts, 0, <<>>, <<>>)

\* JumpTable::resolve
resolve(jumps, position) ==
    IF position \in DOMAIN jumps THEN <<jumps[position]>> ELSE <<>>

(***************************************************************************)
(* runtime.rs                                                              *)
(***************************************************************************)
\* a step's return value
Ok == <<"Ok">>
EndOfInstructions == <<"EndOfInstructions">>
PointerUnderflow(position) == <<"PointerUnderflow", position>>
UndefinedJumpTarget(position) == <<"UndefinedJumpTarget", position>>
InputError(position) == <<"InputError", position>>

\* State::new
State_new == [memory |-> <<0>>, memory_pointer |-> 0, instruction_pointer |-> 0]

\* what a handler hands back: the state it leaves, its return value, and
\* the bytes it wrote to stdout
Outcome(self, ret, out) == [state |-> self, ret |-> ret, out |-> out]

\* the cell at the memory pointer
Cell(self) == self.memory[self.memory_pointer + 1]

\* State::can_execute
can_execute(self, ts) == self.instruction_pointer < Len(ts)

\* u8::overflowing_add(1), the value half
overflowing_add_saturating(value) == IF value = 255 THEN 255 ELSE value + 1
overflowing_add(value) == (value + 1) % 256

\* u8::overflowing_sub(1), the value half
overflowing_sub(value) == (value + 255) % 256

\* State::execute_increment
execute_increment(self) ==
    Outcome([self EXCEPT !.memory[self.memory_pointer + 1] = overflowing_add(@),
                         !.instruction_pointer = @ + 1], Ok, <<>>)

\* State::execute_decrement
execute_decrement(self) ==
    Outcome([self EXCEPT !.memory[self.memory_pointer + 1] = overflowing_sub(@),
                         !.instruction_pointer = @ + 1], Ok, <<>>)

\* State::execute_pointer_increment
execute_pointer_increment_always_push(self) ==
    Outcome([self EXCEPT !.memory_pointer = @ + 1,
                         !.memory = Append(@, 0),
                         !.instruction_pointer = @ + 1], Ok, <<>>)
execute_pointer_increment_no_push(self) ==
    Outcome([self EXCEPT !.memory_pointer = @ + 1,
                         !.instruction_pointer = @ + 1], Ok, <<>>)
execute_pointer_increment(self) ==
    Outcome([self EXCEPT !.memory_pointer = @ + 1,
                         !.memory = IF Len(@) = self.memory_pointer + 1
                                    THEN Append(@, 0) ELSE @,
                         !.instruction_pointer = @ + 1], Ok, <<>>)

\* State::execute_pointer_decrement
execute_pointer_decrement_unchecked(self) ==
    Outcome([self EXCEPT !.memory_pointer = IF @ = 0 THEN 0 ELSE @ - 1,
                         !.instruction_pointer = @ + 1], Ok, <<>>)
execute_pointer_decrement(self) ==
    IF self.memory_pointer = 0
    THEN Outcome(self, PointerUnderflow(self.instruction_pointer), <<>>)
    ELSE Outcome([self EXCEPT !.memory_pointer = @ - 1,
                              !.instruction_pointer = @ + 1], Ok, <<>>)

\* State::execute_loop_start
execute_loop_start_to_end(self, jumps) ==
    IF Cell(self) = 0
    THEN IF resolve(jumps, self.instruction_pointer) # <<>>
         THEN Outcome([self EXCEPT !.instruction_pointer =
                                     resolve(jumps, self.instruction_pointer)[1]],
                      Ok, <<>>)
         ELSE Outcome(self, UndefinedJumpTarget(self.instruction_pointer), <<>>)
    ELSE Outcome([self EXCEPT !.instruction_pointer = @ + 1], Ok, <<>>)
execute_loop_start_past(self, jumps) ==
    IF Cell(self) = 0
    THEN IF resolve(jumps, self.instruction_pointer) # <<>>
         THEN Outcome([self EXCEPT !.instruction_pointer =
                                     resolve(jumps, self.instruction_pointer)[1] + 2],
                      Ok, <<>>)
         ELSE Outcome(self, UndefinedJumpTarget(self.instruction_pointer), <<>>)
    ELSE Outcome([self EXCEPT !.instruction_pointer = @ + 1], Ok, <<>>)
execute_loop_start(self, jumps) ==
    IF Cell(self) = 0
    THEN IF resolve(jumps, self.instruction_pointer) # <<>>
         THEN Outcome([self EXCEPT !.instruction_pointer =
                                     resolve(jumps, self.instruction_pointer)[1] + 1],
                      Ok, <<>>)
         ELSE Outcome(self, UndefinedJumpTarget(self.instruction_pointer), <<>>)
    ELSE Outcome([self EXCEPT !.instruction_pointer = @ + 1], Ok, <<>>)

\* State::execute_loop_end
execute_loop_end_conditional(self, jumps) ==
    IF Cell(self) = 0
    THEN Outcome([self EXCEPT !.instruction_pointer = @ + 1], Ok, <<>>)
    ELSE IF resolve(jumps, self.instruction_pointer) # <<>>
         THEN Outcome([self EXCEPT !.instruction_pointer =
                                     resolve(jumps, self.instruction_pointer)[1]],
                      Ok, <<>>)
         ELSE Outcome(self, UndefinedJumpTarget(self.instruction_pointer), <<>>)
execute_loop_end(self, jumps) ==
    IF resolve(jumps, self.instruction_pointer) # <<>>
    THEN Outcome([self EXCEPT !.instruction_pointer =
                                resolve(jumps, self.instruction_pointer)[1]],
                 Ok, <<>>)
    ELSE Outcome(self, UndefinedJumpTarget(self.instruction_pointer), <<>>)

\* State::execute_input; `read` is what stdin().read_exact yields: <<b>> for
\* Ok with byte b in the buffer, <<>> for Err
execute_input_clobber(self, read) ==
    IF read # <<>>
    THEN Outcome([self EXCEPT !.memory[self.memory_pointer + 1] = read[1]], Ok, <<>>)
    ELSE Outcome([self EXCEPT !.memory[self.memory_pointer + 1] = 0],
                 InputError(self.instruction_pointer), <<>>)
execute_input_cell_zero(self, read) ==
    IF read # <<>>
    THEN Outcome([self EXCEPT !.memory[1] = read[1]], Ok, <<>>)
    ELSE Outcome(self, InputError(self.instruction_pointer), <<>>)
execute_input(self, read) ==
    IF read # <<>>
    THEN Outcome([self EXCEPT !.memory[self.memory_pointer + 1] = read[1]], Ok, <<>>)
    ELSE Outcome(self, InputError(self.instruction_pointer), <<>>)

\* `value as char` formatted by print!("{}"): the UTF-8 encoding of the
\* code point U+0000..U+00FF
Utf8(value) ==
    IF value < 128 THEN <<value>>
    ELSE <<192 + (value \div 64), 128 + (value % 64)>>

\* State::execute_output
execute_output(self) ==
    Outcome([self EXCEPT !.instruction_pointer = @ + 1], Ok, Utf8(Cell(self)))

\* State::execute_current_instruction
execute_current_instruction_unchecked_end(self, ts, jumps, read) ==
    IF ~can_execute(self, ts)
    THEN Outcome(self, Ok, <<>>)
    ELSE CASE TokenAt(ts, self.instruction_pointer) = "Increment" ->
                execute_increment(self)
           [] TokenAt(ts, self.instruction_pointer) = "Decrement" ->
                execute_decrement(self)
           [] TokenAt(ts, self.instruction_pointer) = "PointerIncrement" ->
                execute_pointer_increment(self)
           [] TokenAt(ts, self.instruction_pointer) = "PointerDecrement" ->
                execute_pointer_decrement(self)
           [] TokenAt(ts, self.instruction_pointer) = "LoopStart" ->
                execute_loop_start(self, jumps)
           [] TokenAt(ts, self.instruction_pointer) = "LoopEnd" ->
                execute_loop_end(self, jumps)
           [] TokenAt(ts, self.instruction_pointer) = "Input" ->
                execute_input(self, read)
           [] TokenAt(ts, self.instruction_pointer) = "Output" ->
                execute_output(self)
execute_current_instruction(self, ts, jumps, read) ==
    IF ~can_execute(self, ts)
    THEN Outcome(self, EndOfInstructions, <<>>)
    ELSE CASE TokenAt(ts, self.instruction_pointer) = "Increment" ->
                execute_increment(self)
           [] TokenAt(ts, self.instruction_pointer) = "Decrement" ->
                execute_decrement(self)
           [] TokenAt(ts, self.instruction_pointer) = "PointerIncrement" ->
                execute_pointer_increment(self)
           [] TokenAt(ts, self.instruction_pointer) = "PointerDecrement" ->
                execute_pointer_decrement(self)
           [] TokenAt(ts, self.instruction_pointer) = "LoopStart" ->
                execute_loop_start(self, jumps)
           [] TokenAt(ts, self.instruction_pointer) = "LoopEnd" ->
                execute_loop_end(self, jumps)
           [] TokenAt(ts, self.instruction_pointer) = "Input" ->
                execute_input(self, read)
           [] TokenAt(ts, self.instruction_pointer) = "Output" ->
                execute_output(self)

(***************************************************************************)
(* The state machine.                                                      *)
(***************************************************************************)
VARIABLES
    pc,                  \* "source" (not yet tokenized), "start", "run", or
                         \* "failed" (JumpTable::from erred)
    source,              \* the characters of the program text
    tokens,              \* the token sequence being executed
    table_tokens,        \* the token sequence handed to JumpTable::from
    table,               \* what JumpTable::from returned to the caller
    memory,              \* State.memory
    memory_pointer,      \* State.memory_pointer
    instruction_pointer, \* State.instruction_pointer
    result,              \* the return value of the last step, <<"None">> before
    executed,            \* the token the last step dispatched on, "None" if none
    written              \* the bytes the last step wrote to stdout

vars == <<pc, source, tokens, table_tokens, table, memory, memory_pointer,
          instruction_pointer,
          result, executed, written>>

\* the State value the variables hold
Self ==
    [memory |-> memory, memory_pointer |-> memory_pointer,
     instruction_pointer |-> instruction_pointer]

\* all sequences over S of length at most n
SeqsUpTo(S, n) == UNION {[1..k -> S] : k \in 0..n}

\* the token sequences the model runs
TokenSeqs == SeqsUpTo(Token, MaxLen)

\* the characters Token::parse maps to a token
InstructionChars == {"+", "-", ">", "<", "[", "]", ",", "."}

\* characters that are comments: the two of the parse_token test
CommentChars == {" ", "k"}

\* the program texts the model runs: instruction characters only, one text
\* for each token sequence of TokenSeqs
ProgramSources == SeqsUpTo(InstructionChars, MaxLen)

\* the texts handed to the tokenizer alone: comments included
CommentedSources == SeqsUpTo(InstructionChars \cup CommentChars, MaxSourceLen)

\* the token sequences a foreign jump table is built from: loop tokens only,
\* which gives the empty table of the runtime tests and tables with entries
ForeignSeqs == SeqsUpTo({"LoopStart", "LoopEnd"}, MaxForeignLen)

\* the bytes stdin can deliver
InputBytes == {0, 1, 255}

\* the outcomes of stdin().read_exact: a byte, or an error
ReadOutcomes == {<<b>> : b \in InputBytes} \cup {<<>>}

\* main after `let tokens = tokenize(&source)` and State::new()
Init ==
    /\ pc = "start"
    /\ source \in ProgramSources
    /\ tokens = tokenize(source)
    /\ tokens \in TokenSeqs
    /\ table_tokens = <<>>
    /\ table = [kind |-> "None", arg |-> 0, jumps |-> <<>>]
    /\ memory = State_new.memory
    /\ memory_pointer = State_new.memory_pointer
    /\ instruction_pointer = State_new.instruction_pointer
    /\ result = <<"None">>
    /\ executed = "None"
    /\ written = <<>>

\* main: the jump table is built from the tokens that are executed
BuildTable ==
    /\ pc = "start"
    /\ table_tokens' = tokens
    /\ table' = JumpTable_from(tokens)
    /\ pc' = IF table'.kind = "Ok" THEN "run" ELSE "failed"
    /\ UNCHANGED <<source, tokens, memory, memory_pointer, instruction_pointer,
                   result, executed, written>>

\* a caller that hands the engine a jump table built from other tokens
BuildForeignTable ==
    /\ pc = "start"
    /\ \E src \in ForeignSeqs :
          /\ JumpTable_from(src).kind = "Ok"
          /\ table_tokens' = src
          /\ table' = JumpTable_from(src)
    /\ pc' = "run"
    /\ UNCHANGED <<source, tokens, memory, memory_pointer, instruction_pointer,
                   result, executed, written>>

\* one call of execute_current_instruction
Step ==
    /\ pc = "run"
    /\ \E read \in ReadOutcomes :
          LET r == execute_current_instruction(Self, tokens, table.jumps, read) IN
          /\ Len(r.state.memory) <= MaxTape
          /\ memory' = r.state.memory
          /\ memory_pointer' = r.state.memory_pointer
          /\ instruction_pointer' = r.state.instruction_pointer
          /\ result' = r.ret
          /\ written' = r.out
    /\ executed' = IF can_execute(Self, tokens)
                   THEN TokenAt(tokens, instruction_pointer) ELSE "None"
    /\ UNCHANGED <<pc, source, tokens, table_tokens, table>>

Next == BuildTable \/ BuildForeignTable \/ Step

Spec == Init /\ [][Next]_vars

(***************************************************************************)
(* The tokenizer alone, on program texts with comments.                    *)
(***************************************************************************)
\* main before `let tokens = tokenize(&source)`
TokenizeInit ==
    /\ pc = "source"
    /\ source \in CommentedSources
    /\ tokens = <<>>
    /\ table_tokens = <<>>
    /\ table = [kind |-> "None", arg |-> 0, jumps |-> <<>>]
    /\ memory = State_new.memory
    /\ memory_pointer = State_new.memory_pointer
    /\ instruction_pointer = State_new.instruction_pointer
    /\ result = <<"None">>
    /\ executed = "None"
    /\ written = <<>>

\* main: let tokens = tokenize(&source)
Tokenize ==
    /\ pc = "source"
    /\ tokens' = tokenize(source)
    /\ pc' = "start"
    /\ UNCHANGED <<source, table_tokens, table, memory, memory_pointer,
                   instruction_pointer, result, executed, written>>

TokenizeNext == Tokenize

TokenizeSpec == TokenizeInit /\ [][TokenizeNext]_vars

(***************************************************************************)
(* The driver loop of main on the program [+], entered with the current    *)
(* cell preset to 1 the way the runtime tests preset it.                   *)
(***************************************************************************)
\* the program text of the loop scenario
LoopSource == <<"[", "+", "]">>

\* main after JumpTable::from(&tokens).unwrap() and State::new(), with
\* state.memory[0] = 1
LoopInit ==
    /\ pc = "run"
    /\ source = LoopSource
    /\ tokens = tokenize(source)
    /\ table_tokens = tokens
    /\ table = JumpTable_from(tokens)
    /\ memory = [State_new.memory EXCEPT ![1] = 1]
    /\ memory_pointer = State_new.memory_pointer
    /\ instruction_pointer = State_new.instruction_pointer
    /\ result = <<"None">>
    /\ executed = "None"
    /\ written = <<>>

\* main: one turn of `while state.can_execute(&tokens) { ... .unwrap() }`;
\* an Err ends the process at unwrap
DriverStep ==
    /\ can_execute(Self, tokens)
    /\ result \in {<<"None">>, Ok}
    /\ Step

LoopNext == DriverStep

\* the loop is sequential code: a turn that can be taken is taken
LoopSpec == LoopInit /\ [][LoopNext]_vars /\ WF_vars(DriverStep)

(***************************************************************************)
(* Bracket structure of a token sequence, stated without the scan's stack. *)
(***************************************************************************)
\* the 0-based positions of a token sequence
Positions(ts) == 0..(Len(ts) - 1)

\* LoopStarts minus LoopEnds among the positions from..(to - 1)
Depth(ts, from, to) ==
    Cardinality({p \in from..(to - 1) : TokenAt(ts, p) = "LoopStart"})
    - Cardinality({p \in from..(to - 1) : TokenAt(ts, p) = "LoopEnd"})

\* perfectly nested and balanced: no prefix closes more loops than it
\* opened, and the whole sequence closes all of them
Balanced(ts) ==
    /\ \A k \in 0..Len(ts) : Depth(ts, 0, k) >= 0
    /\ Depth(ts, 0, Len(ts)) = 0

\* the LoopStart at s and the LoopEnd at e enclose a balanced body
MatchedPair(ts, s, e) ==
    /\ s \in Positions(ts) /\ e \in Positions(ts) /\ s < e
    /\ TokenAt(ts, s) = "LoopStart" /\ TokenAt(ts, e) = "LoopEnd"
    /\ \A k \in (s + 1)..e : Depth(ts, s + 1, k) >= 0
    /\ Depth(ts, s + 1, e) = 0

\* the positions p for which the LoopEnd at p closes a loop never opened
UnopenedEnds(ts) == {p \in Positions(ts) : Depth(ts, 0, p + 1) < 0}

\* the least element of a non-empty set of naturals
Least(S) == CHOOSE x \in S : \A y \in S : x <= y

(***************************************************************************)
(* The claims.                                                             *)
(***************************************************************************)
\* a step is about to dispatch on token t
Dispatching(t) ==
    /\ pc = "run"
    /\ can_execute(Self, tokens)
    /\ TokenAt(tokens, instruction_pointer) = t

\* C1: JumpTable::from succeeds iff the LoopStart/LoopEnd tokens are
\* perfectly nested and balanced; a successful table resolves each matched
\* pair (s, e) both ways, s to e and e to s, and has no entry for any other
\* position (two entries per matched pair and nothing else).
C1_JumpTableMatchesPairs ==
    pc # "start" =>
        /\ (table.kind = "Ok") <=> Balanced(table_tokens)
        /\ table.kind = "Ok" =>
              /\ \A s, e \in Positions(table_tokens) :
                    MatchedPair(table_tokens, s, e) =>
                        /\ resolve(table.jumps, s) = <<e>>
                        /\ resolve(table.jumps, e) = <<s>>
              /\ \A p \in Positions(table_tokens) \cup DOMAIN table.jumps :
                    resolve(table.jumps, p) # <<>> =>
                        \E q \in Positions(table_tokens) :
                            \/ MatchedPair(table_tokens, p, q)
                            \/ MatchedPair(table_tokens, q, p)
              /\ Cardinality(DOMAIN table.jumps) =
                    2 * Cardinality({pr \in Positions(table_tokens)
                                            \X Positions(table_tokens) :
                                        MatchedPair(table_tokens, pr[1], pr[2])})

\* C1 witness: a table was built from a nested program, with the outer pair
\* (0, 3) and an inner pair inside it
C1_Witness ==
    /\ pc = "run"
    /\ table_tokens = tokens
    /\ Len(tokens) = 4
    /\ resolve(table.jumps, 0) = <<3>>
    /\ resolve(table.jumps, 2) = <<1>>

\* C6: JumpTable::from fails with NoMatchingLoopEnd(p) exactly when some
\* LoopEnd is met with no LoopStart pending, p being the first such LoopEnd;
\* otherwise, if LoopStarts are left pending, it fails with
\* TooManyLoopStarts(n), n the number of unmatched LoopStarts.  [LoopEnd]
\* gives NoMatchingLoopEnd(0) and [LoopStart] gives TooManyLoopStarts(1).
C6_JumpTableErrors ==
    pc # "start" =>
        /\ (table.kind = "NoMatchingLoopEnd") <=> UnopenedEnds(table_tokens) # {}
        /\ table.kind = "NoMatchingLoopEnd" =>
              /\ table.arg = Least(UnopenedEnds(table_tokens))
              /\ TokenAt(table_tokens, table.arg) = "LoopEnd"
        /\ (table.kind = "TooManyLoopStarts") <=>
              /\ UnopenedEnds(table_tokens) = {}
              /\ Depth(table_tokens, 0, Len(table_tokens)) > 0
        /\ table.kind = "TooManyLoopStarts" =>
              table.arg = Depth(table_tokens, 0, Len(table_tokens))
        /\ table_tokens = <<"LoopEnd">> => table = NoMatchingLoopEnd(0)
        /\ table_tokens = <<"LoopStart">> => table = TooManyLoopStarts(1)

\* C6 witness: the scan stopped at the first unopened LoopEnd, which is
\* neither the first token nor the last unopened LoopEnd
C6_Witness ==
    /\ pc = "failed"
    /\ table_tokens = <<"LoopStart", "LoopEnd", "LoopEnd", "LoopEnd">>
    /\ table = NoMatchingLoopEnd(2)

\* C2: an Input step whose read yields a byte stores that byte in the cell
\* at the memory pointer and advances the instruction pointer by exactly 1;
\* when the read yields no byte the step fails with InputError carrying the
\* current instruction pointer and the instruction pointer is not advanced.
C2_InputAdvances ==
    [][Dispatching("Input") =>
        /\ result' = Ok =>
              /\ memory'[memory_pointer + 1] \in InputBytes
              /\ instruction_pointer' = instruction_pointer + 1
        /\ result' # Ok =>
              /\ result' = InputError(instruction_pointer)
              /\ instruction_pointer' = instruction_pointer]_vars

\* C3: a LoopStart step with a zero cell and a table entry e sets the
\* instruction pointer to e + 1 (program [+] with cell 0: it becomes 3 and
\* the cell stays 0); with a zero cell and no entry it fails with
\* UndefinedJumpTarget(instruction pointer) and does not advance; with a
\* non-zero cell it advances by exactly 1.  Tape and memory pointer are
\* unchanged in every case.
C3_LoopStart ==
    [][Dispatching("LoopStart") =>
        /\ memory' = memory
        /\ memory_pointer' = memory_pointer
        /\ (Cell(Self) = 0 /\ instruction_pointer \in DOMAIN table.jumps) =>
              /\ result' = Ok
              /\ instruction_pointer' = table.jumps[instruction_pointer] + 1
        /\ (Cell(Self) = 0 /\ instruction_pointer \notin DOMAIN table.jumps) =>
              /\ result' = UndefinedJumpTarget(instruction_pointer)
              /\ instruction_pointer' = instruction_pointer
        /\ Cell(Self) # 0 =>
              /\ result' = Ok
              /\ instruction_pointer' = instruction_pointer + 1
        /\ (tokens = <<"LoopStart", "Increment", "LoopEnd">>
              /\ table_tokens = tokens /\ instruction_pointer = 0
              /\ Cell(Self) = 0) =>
              /\ instruction_pointer' = 3
              /\ memory' = <<0>>]_vars

\* C3 witness: program [+] from a zero cell has skipped its loop
C3_Witness ==
    /\ tokens = <<"LoopStart", "Increment", "LoopEnd">>
    /\ table_tokens = tokens
    /\ executed = "LoopStart"
    /\ result = Ok
    /\ instruction_pointer = 3
    /\ memory = <<0>>

\* C4: a LoopEnd step jumps whatever the cell holds: with a table entry s
\* the instruction pointer becomes exactly s; with no entry the step fails
\* with UndefinedJumpTarget(instruction pointer) and does not advance.
C4_LoopEnd ==
    [][Dispatching("LoopEnd") =>
        /\ instruction_pointer \in DOMAIN table.jumps =>
              /\ result' = Ok
              /\ instruction_pointer' = table.jumps[instruction_pointer]
        /\ instruction_pointer \notin DOMAIN table.jumps =>
              /\ result' = UndefinedJumpTarget(instruction_pointer)
              /\ instruction_pointer' = instruction_pointer]_vars

\* C4 witness: a LoopEnd step has jumped back to its LoopStart although the
\* cell is zero
C4_Witness ==
    /\ pc = "run"
    /\ table_tokens = tokens
    /\ executed = "LoopEnd"
    /\ result = Ok
    /\ Cell(Self) = 0
    /\ can_execute(Self, tokens)
    /\ TokenAt(tokens, instruction_pointer) = "LoopStart"

\* C5: with the jump table built from the very token sequence that is
\* executed, no step returns UndefinedJumpTarget.
C5_NoUndefinedJumpTarget ==
    (pc = "run" /\ table_tokens = tokens) => result[1] # "UndefinedJumpTarget"

\* C5 witness: with its own table, a program has run LoopStart and LoopEnd
\* steps and left its loop through the LoopStart at position 1
C5_Witness ==
    /\ pc = "run"
    /\ table_tokens = tokens
    /\ tokens = <<"Increment", "LoopStart", "Decrement", "LoopEnd">>
    /\ executed = "LoopStart"
    /\ result = Ok
    /\ instruction_pointer = 4

\* C7: Increment replaces the cell at the memory pointer by (cell + 1) mod
\* 256, Decrement by (cell - 1) mod 256; both always succeed and advance the
\* instruction pointer by exactly 1, wrapped or not.
C7_IncrementDecrementWrap ==
    [][/\ Dispatching("Increment") =>
             /\ result' = Ok
             /\ instruction_pointer' = instruction_pointer + 1
             /\ memory_pointer' = memory_pointer
             /\ memory' = [memory EXCEPT ![memory_pointer + 1] =
                             IF @ = 255 THEN 0 ELSE @ + 1]
       /\ Dispatching("Decrement") =>
             /\ result' = Ok
             /\ instruction_pointer' = instruction_pointer + 1
             /\ memory_pointer' = memory_pointer
             /\ memory' = [memory EXCEPT ![memory_pointer + 1] =
                             IF @ = 0 THEN 255 ELSE @ - 1]]_vars

\* C7 witness: Decrement has wrapped 0 to 255 and Increment has wrapped it
\* back to 0
C7_Witness ==
    /\ tokens = <<"Decrement", "Increment">>
    /\ executed = "Increment"
    /\ result = Ok
    /\ instruction_pointer = 2
    /\ memory = <<0>>

\* C8: PointerDecrement at memory pointer 0 fails with
\* PointerUnderflow(instruction pointer) and leaves memory pointer,
\* instruction pointer and tape unchanged; at a memory pointer above 0 it
\* decrements the memory pointer, advances the instruction pointer by 1 and
\* leaves the tape unchanged.
C8_PointerDecrement ==
    [][Dispatching("PointerDecrement") =>
        /\ memory' = memory
        /\ memory_pointer = 0 =>
              /\ result' = PointerUnderflow(instruction_pointer)
              /\ memory_pointer' = memory_pointer
              /\ instruction_pointer' = instruction_pointer
        /\ memory_pointer > 0 =>
              /\ result' = Ok
              /\ memory_pointer' = memory_pointer - 1
              /\ instruction_pointer' = instruction_pointer + 1]_vars

\* C8 witness: the first PointerDecrement of ><< moved back to cell 0, the
\* second one underflowed
C8_Witness ==
    /\ tokens = <<"PointerIncrement", "PointerDecrement", "PointerDecrement">>
    /\ executed = "PointerDecrement"
    /\ result = PointerUnderflow(2)
    /\ memory_pointer = 0
    /\ Len(memory) = 2

\* C9: PointerIncrement from the last tape index appends exactly one zero
\* cell and the memory pointer becomes the old tape length; from any other
\* index it moves the memory pointer by 1 and the tape does not grow.
\* Existing cells are unchanged and the instruction pointer advances by 1.
C9_PointerIncrement ==
    [][Dispatching("PointerIncrement") =>
        /\ result' = Ok
        /\ instruction_pointer' = instruction_pointer + 1
        /\ memory_pointer = Len(memory) - 1 =>
              /\ memory' = Append(memory, 0)
              /\ memory_pointer' = Len(memory)
        /\ memory_pointer # Len(memory) - 1 =>
              /\ memory' = memory
              /\ memory_pointer' = memory_pointer + 1]_vars

\* C9 witness: in ><> the first PointerIncrement grew the tape to two cells
\* and the second, from index 0 of 2, did not grow it
C9_Witness ==
    /\ tokens = <<"PointerIncrement", "PointerDecrement", "PointerIncrement">>
    /\ executed = "PointerIncrement"
    /\ result = Ok
    /\ instruction_pointer = 3
    /\ memory_pointer = 1
    /\ Len(memory) = 2

\* C10: in every reachable state the memory pointer is a valid tape index
\* (memory pointer < tape length, tape length >= 1); across a step the tape
\* length never decreases, grows by at most one cell, and grows only when
\* the executed token is PointerIncrement.
C10_TapeBounds ==
    /\ [](Len(memory) >= 1 /\ memory_pointer < Len(memory))
    /\ [][/\ Len(memory') >= Len(memory)
           /\ Len(memory') <= Len(memory) + 1
           /\ Len(memory') > Len(memory) => Dispatching("PointerIncrement")]_vars

\* C10 witness: the tape has grown to three cells and the memory pointer
\* has come back to cell 0
C10_Witness ==
    /\ Len(memory) = 3
    /\ memory_pointer = 0
    /\ executed = "PointerDecrement"
    /\ result = Ok

\* the token of an instruction character, as the language defines it
TokenOf ==
    [c \in InstructionChars |->
        CASE c = "+" -> "Increment"
          [] c = "-" -> "Decrement"
          [] c = ">" -> "PointerIncrement"
          [] c = "<" -> "PointerDecrement"
          [] c = "[" -> "LoopStart"
          [] c = "]" -> "LoopEnd"
          [] c = "," -> "Input"
          [] c = "." -> "Output"]

\* the indices of the instruction characters of a text
InstructionIndices(text) == {i \in 1..Len(text) : text[i] \in InstructionChars}

\* the index of the n-th instruction character of a text
NthInstruction(text, n) ==
    CHOOSE i \in InstructionIndices(text) :
        Cardinality({j \in InstructionIndices(text) : j <= i}) = n

\* C15: tokenizing yields, in source order, exactly the tokens of the
\* characters among + - > < [ ] , . under the fixed mapping; every other
\* character produces no token, a text of only such characters yields the
\* empty token sequence, and tokenizing never fails.
C15_TokenizeKeepsInstructions ==
    pc = "start" =>
        /\ Len(tokens) = Cardinality(InstructionIndices(source))
        /\ \A n \in 1..Len(tokens) :
              tokens[n] = TokenOf[source[NthInstruction(source, n)]]
        /\ InstructionIndices(source) = {} => tokens = <<>>
        /\ tokens \in Seq(Token)

\* C15 witness: a text with a comment between two instructions was
\* tokenized to the two tokens in order
C15_Witness ==
    /\ pc = "start"
    /\ source = <<"<", "k", "+">>
    /\ tokens = <<"PointerDecrement", "Increment">>

\* C11: can_execute(tokens) is true iff instruction pointer < length(tokens);
\* a step taken when it is false returns EndOfInstructions and leaves tape,
\* memory pointer and instruction pointer unchanged (and no other step
\* returns EndOfInstructions).
C11_EndOfInstructions ==
    [][pc = "run" =>
        /\ can_execute(Self, tokens) <=> instruction_pointer < Len(tokens)
        /\ instruction_pointer >= Len(tokens) =>
              /\ result' = EndOfInstructions
              /\ memory' = memory
              /\ memory_pointer' = memory_pointer
              /\ instruction_pointer' = instruction_pointer
              /\ written' = <<>>
        /\ result' = EndOfInstructions =>
              instruction_pointer >= Len(tokens)]_vars

\* C11 witness: a non-empty program ran to its end and was stepped once more
C11_Witness ==
    /\ pc = "run"
    /\ Len(tokens) > 0
    /\ instruction_pointer = Len(tokens)
    /\ executed = "None"
    /\ result = EndOfInstructions

\* C12: whenever a step returns an error, the tape, the memory pointer and
\* the instruction pointer are what they were before the call, and the
\* position the error carries is that instruction pointer.
C12_ErrorsLeaveState ==
    [][(pc = "run" /\ result' # Ok) =>
        /\ memory' = memory
        /\ memory_pointer' = memory_pointer
        /\ instruction_pointer' = instruction_pointer
        /\ result' \in {EndOfInstructions,
                        PointerUnderflow(instruction_pointer),
                        UndefinedJumpTarget(instruction_pointer),
                        InputError(instruction_pointer)}]_vars

\* C12 witness: in +, the read of the Input at position 1 failed and the
\* cell still holds the 1 that Increment left
C12_Witness ==
    /\ tokens = <<"Increment", "Input">>
    /\ executed = "Input"
    /\ result = InputError(1)
    /\ instruction_pointer = 1
    /\ memory = <<1>>

\* what one turn of the driver loop does to program [+], by position
LoopStepRules ==
    /\ (instruction_pointer = 0 /\ Cell(Self) # 0) =>
          (instruction_pointer' = 1 /\ memory' = memory)
    /\ (instruction_pointer = 0 /\ Cell(Self) = 0) =>
          (instruction_pointer' = 3 /\ memory' = memory)
    /\ instruction_pointer = 1 =>
          /\ instruction_pointer' = 2
          /\ memory' = <<IF Cell(Self) = 255 THEN 0 ELSE Cell(Self) + 1>>
    /\ instruction_pointer = 2 =>
          (instruction_pointer' = 0 /\ memory' = memory)
    /\ (instruction_pointer = 1 /\ executed = "LoopStart" /\ memory = <<1>>) =>
          memory' = <<2>>

\* C13: program [+] driven by the can_execute/step loop from a current cell
\* of 1: LoopStart advances to position 1, Increment sets the cell to 2 and
\* advances to position 2, LoopEnd jumps back to position 0; the run ends
\* (instruction pointer 3, cell 0) only when the cell has wrapped to 0 after
\* 255 increments; the loop is left only by a LoopStart step that sees a
\* zero cell, never by a LoopEnd step.
C13_LoopRunsUntilWrap ==
    /\ [](executed = "None" => (instruction_pointer = 0 /\ memory = <<1>>))
    /\ [](instruction_pointer = 3 =>
            (memory = <<0>> /\ executed = "LoopStart" /\ result = Ok))
    /\ [](executed = "Increment" =>
            (instruction_pointer = 2 /\ Cell(Self) \in (2..255) \cup {0}))
    /\ [][LoopStepRules]_vars
    /\ \A c \in 2..255 : <>(executed = "Increment" /\ memory = <<c>>)
    /\ <>(instruction_pointer = 3)

\* C13 witness: after the Increment that wrapped the cell to 0, LoopEnd has
\* jumped back to position 0 instead of leaving the loop
C13_Witness ==
    /\ tokens = <<"LoopStart", "Increment", "LoopEnd">>
    /\ executed = "LoopEnd"
    /\ result = Ok
    /\ instruction_pointer = 0
    /\ memory = <<0>>

\* C14: in a successfully built jump table resolve(resolve(p)) = p for every
\* position p with an entry, and every such position holds a LoopStart or a
\* LoopEnd of the token sequence the table was built from, a LoopStart
\* resolving to a LoopEnd and a LoopEnd to a LoopStart.
C14_ResolveInvolution ==
    (pc = "run" /\ table.kind = "Ok") =>
        \A p \in DOMAIN table.jumps :
            /\ resolve(table.jumps, resolve(table.jumps, p)[1]) = <<p>>
            /\ p \in Positions(table_tokens)
            /\ resolve(table.jumps, p)[1] \in Positions(table_tokens)
            /\ TokenAt(table_tokens, p) \in {"LoopStart", "LoopEnd"}
            /\ TokenAt(table_tokens, p) = "LoopStart" =>
                  TokenAt(table_tokens, resolve(table.jumps, p)[1]) = "LoopEnd"
            /\ TokenAt(table_tokens, p) = "LoopEnd" =>
                  TokenAt(table_tokens, resolve(table.jumps, p)[1]) = "LoopStart"

\* C14 witness: a table with two loops side by side, four entries
C14_Witness ==
    /\ pc = "run"
    /\ table_tokens = <<"LoopStart", "LoopEnd", "LoopStart", "LoopEnd">>
    /\ resolve(table.jumps, 0) = <<1>>
    /\ resolve(table.jumps, 3) = <<2>>

\* C16: an Output step writes the cell at the memory pointer to stdout as
\* exactly one byte whose value is the cell value, for every cell value
\* 0..255; it never fails, advances the instruction pointer by 1 and leaves
\* tape and memory pointer unchanged.
C16_OutputOneByte ==
    [][Dispatching("Output") =>
        /\ written' = <<Cell(Self)>>
        /\ result' = Ok
        /\ instruction_pointer' = instruction_pointer + 1
        /\ memory' = memory
        /\ memory_pointer' = memory_pointer]_vars

\* no LoopStart and no LoopEnd in a token sequence
NoLoopTokens(ts) ==
    \A p \in Positions(ts) : TokenAt(ts, p) \notin {"LoopStart", "LoopEnd"}

\* C17: for a token sequence with no LoopStart and no LoopEnd, every
\* successful step from State::new() increases the instruction pointer by
\* exactly 1, so the driver loop makes at most length(tokens) successful
\* steps and, absent errors, ends with instruction pointer = length(tokens).
C17_NoLoopsAdvance ==
    [][(pc = "run" /\ NoLoopTokens(tokens) /\ can_execute(Self, tokens)
          /\ result' = Ok) =>
        instruction_pointer' = instruction_pointer + 1]_vars

\* C18: with the jump table built from the executed token sequence, every
\* reachable state has instruction pointer <= length(tokens): a LoopStart
\* skip lands at most one past the last token, a LoopEnd jump lands on an
\* earlier LoopStart position, and the machine is terminal exactly when
\* instruction pointer = length(tokens).
C18_InstructionPointerBound ==
    /\ []((pc = "run" /\ table_tokens = tokens) =>
            /\ instruction_pointer <= Len(tokens)
            /\ ~can_execute(Self, tokens) <=> instruction_pointer = Len(tokens))
    /\ [][(table_tokens = tokens /\ Dispatching("LoopStart")) =>
            instruction_pointer' <= Len(tokens)]_vars
    /\ [][(table_tokens = tokens /\ Dispatching("LoopEnd")) =>
            /\ instruction_pointer' < instruction_pointer
            /\ TokenAt(tokens, instruction_pointer') = "LoopStart"]_vars

\* C18 witness: the LoopStart of [] skipped to position 2, one past the
\* last token
C18_Witness ==
    /\ pc = "run"
    /\ tokens = <<"LoopStart", "LoopEnd">>
    /\ table_tokens = tokens
    /\ executed = "LoopStart"
    /\ result = Ok
    /\ instruction_pointer = 2

\* C19: in a step at most one existing tape cell changes value, it is the
\* cell at the memory pointer, and only when the token is Increment,
\* Decrement or Input; PointerIncrement, PointerDecrement, LoopStart,
\* LoopEnd and Output leave every existing cell unchanged, and only
\* PointerIncrement and PointerDecrement change the memory pointer.
C19_FrameOfStep ==
    [][pc = "run" =>
        /\ \A i \in 1..Len(memory) :
              memory'[i] # memory[i] =>
                  /\ i = memory_pointer + 1
                  /\ \/ Dispatching("Increment")
                     \/ Dispatching("Decrement")
                     \/ Dispatching("Input")
        /\ memory_pointer' # memory_pointer =>
              \/ Dispatching("PointerIncrement")
              \/ Dispatching("PointerDecrement")]_vars

\* C19 witness: in >, the Input changed the cell at memory pointer 1 and
\* left cell 0 alone
C19_Witness ==
    /\ tokens = <<"PointerIncrement", "Input">>
    /\ executed = "Input"
    /\ result = Ok
    /\ memory_pointer = 1
    /\ memory = <<0, 255>>

====
